---- MODULE Spec2Model ----
(***************************************************************************)
(* Model of the assertion aggregation and query logic of TMAS              *)
(* (src/models.py, src/controller.py): the model classes and their KGX     *)
(* export, the /query/ handler, and the assertion and evidence pages.      *)
(*                                                                         *)
(* Strings are sequences of one-character strings, so that str.lower() and *)
(* str.startswith() are computed character by character.  A float score is *)
(* an integer number of score units; a mean is the reduced fraction        *)
(* <<numerator, denominator>> (fsum is exactly rounded, so the quotient is *)
(* a function of the exact sum and the count).  Python's None is the empty *)
(* tuple <<>> and a present value v is <<v>>.                              *)
(***************************************************************************)
EXTENDS Integers, Sequences, FiniteSets

VARIABLES store, session, cache, request, frame, response, ret

vars == <<store, session, cache, request, frame, response, ret>>

-----------------------------------------------------------------------------
(* Bounds of the model *)

\* the evidence items of one assertion
MaxEvidence == 2

-----------------------------------------------------------------------------
(* Strings *)

UpperAlpha ==
  <<"A","B","C","D","E","F","G","H","I","J","K","L","M",
    "N","O","P","Q","R","S","T","U","V","W","X","Y","Z">>

LowerAlpha ==
  <<"a","b","c","d","e","f","g","h","i","j","k","l","m",
    "n","o","p","q","r","s","t","u","v","w","x","y","z">>

LowerChar(c) ==
  IF \E i \in 1..26 : UpperAlpha[i] = c
    THEN LowerAlpha[CHOOSE i \in 1..26 : UpperAlpha[i] = c]
    ELSE c

\* str.lower()
Lower(s) == [i \in 1..Len(s) |-> LowerChar(s[i])]

\* str.startswith(prefix)
StartsWith(s, prefix) ==
  /\ Len(s) >= Len(prefix)
  /\ SubSeq(s, 1, Len(prefix)) = prefix

\* the literal 'any' the subject and object are compared with after lower()
ANY_LOWER == <<"a","n","y">>

\* the literal 'Any' the object and the predicate are compared with as given
ANY_TITLE == <<"A","n","y">>

ANY_UPPER == <<"A","N","Y">>

\* the literal 'UniProtKB'
UNIPROT_PREFIX == <<"U","n","i","P","r","o","t","K","B">>

\* "PR:1", an internal identifier with a cross-reference
PR1 == <<"P","R",":","1">>

\* "CHEBI:2", an identifier with no cross-reference
CHEBI2 == <<"C","H","E","B","I",":","2">>

\* "UniProtKB:P1"
UP1 == UNIPROT_PREFIX \o <<":","P","1">>

\* "biolink:treats"
TREATS == <<"b","i","o","l","i","n","k",":","t","r","e","a","t","s">>

\* "biolink:contributes_to"
CONTRIBUTES == <<"b","i","o","l","i","n","k",":","c","o","n","t","r","i","b","u","t","e","s","_","t","o">>

\* the predicates the controller offers
predicates == {TREATS, CONTRIBUTES}

\* the pr_to_uniprot table: pr -> uniprot
pr_to_uniprot == [pr \in {PR1} |-> UP1]

\* the scores are 1..MaxScore: as many levels as predicates, so that the
\* scores of an evidence item come in every order, ties included
MaxScore == Cardinality(predicates)

\* the version tag the controller filters on
CURRENT_VERSION == 2

\* the configured maximum of selected assertions (environment EDGE_LIMIT)
EDGE_LIMIT == 1

None == <<>>

Some(v) == <<v>>

-----------------------------------------------------------------------------
(* Numbers *)

RECURSIVE Gcd(_, _)
Gcd(a, b) == IF b = 0 THEN a ELSE Gcd(b, a % b)

\* the quotient total / float(count) of two exact values
Quotient(total, count) ==
  LET g == Gcd(total, count) IN <<total \div g, count \div g>>

RECURSIVE fsum(_)
fsum(xs) == IF xs = <<>> THEN 0 ELSE Head(xs) + fsum(Tail(xs))

-----------------------------------------------------------------------------
(* list.sort(key=..., reverse=True): a stable descending sort.  keys is the  *)
(* sequence of sort keys; the result is the order of the indices.            *)

\* a variant of InsertDesc: an element goes before the elements of its key
RECURSIVE InsertDescBeforeEqual(_, _, _)
InsertDescBeforeEqual(keys, i, sorted) ==
  IF sorted = <<>> THEN <<i>>
  ELSE IF keys[Head(sorted)] > keys[i]
    THEN <<Head(sorted)>> \o InsertDescBeforeEqual(keys, i, Tail(sorted))
    ELSE <<i>> \o sorted

RECURSIVE InsertDesc(_, _, _)
InsertDesc(keys, i, sorted) ==
  IF sorted = <<>> THEN <<i>>
  ELSE IF keys[Head(sorted)] >= keys[i]
    THEN <<Head(sorted)>> \o InsertDesc(keys, i, Tail(sorted))
    ELSE <<i>> \o sorted

RECURSIVE SortFrom(_, _, _)
SortFrom(keys, i, sorted) ==
  IF i > Len(keys) THEN sorted
  ELSE SortFrom(keys, i + 1, InsertDesc(keys, i, sorted))

SortDescOrder(keys) == SortFrom(keys, 1, <<>>)

Permute(xs, order) == [i \in 1..Len(xs) |-> xs[order[i]]]

Range(xs) == {xs[i] : i \in 1..Len(xs)}

-----------------------------------------------------------------------------
(* models.py: Evidence.  A method call is the record                         *)
(* [self |-> the object after the call, exc |-> the exception raised or "",   *)
(*  val |-> the value returned].                                             *)

\* a variant of SortScores: reverse=True left out
SortScoresAscending(evidence_scores) ==
  Permute(evidence_scores,
          SortDescOrder([i \in 1..Len(evidence_scores) |-> 0 - evidence_scores[i].score]))

\* self.evidence_scores.sort(key=lambda ev_score: ev_score.score, reverse=True)
SortScores(evidence_scores) ==
  Permute(evidence_scores,
          SortDescOrder([i \in 1..Len(evidence_scores) |-> evidence_scores[i].score]))

get_top_predicate(ev) ==
  LET first_of(sorted) ==
        IF Len(sorted.evidence_scores) = 0
          THEN [self |-> sorted, exc |-> "IndexError", val |-> None]
          ELSE [self |-> sorted, exc |-> "",
                val |-> sorted.evidence_scores[1].predicate_curie]
  IN first_of([ev EXCEPT !.evidence_scores = SortScores(@)])

\* next((x.score for x in self.evidence_scores if x.predicate_curie == predicate), None)
FirstScore(evidence_scores, predicate) ==
  LET hits == {i \in 1..Len(evidence_scores) : evidence_scores[i].predicate_curie = predicate} IN
  IF hits = {} THEN None
  ELSE Some(evidence_scores[CHOOSE i \in hits : \A j \in hits : i <= j].score)

get_score(ev, predicate) ==
  LET score_of(top) ==
        IF top.exc # ""
          THEN [self |-> top.self, exc |-> top.exc, val |-> None]
          ELSE [self |-> top.self, exc |-> "",
                val |-> FirstScore(top.self.evidence_scores, top.val)]
  IN score_of(IF predicate = None THEN get_top_predicate(ev)
              ELSE [self |-> ev, exc |-> "", val |-> predicate])

-----------------------------------------------------------------------------
(* models.py: Assertion *)

subject_uniprot(A) ==
  IF A.subject_curie \in DOMAIN pr_to_uniprot
    THEN Some(pr_to_uniprot[A.subject_curie]) ELSE None

object_uniprot(A) ==
  IF A.object_curie \in DOMAIN pr_to_uniprot
    THEN Some(pr_to_uniprot[A.object_curie]) ELSE None

\* the generator of get_predicates, from evidence item i on
RECURSIVE top_predicates(_, _, _)
top_predicates(evidence_list, i, tops) ==
  IF i > Len(evidence_list)
    THEN [self |-> evidence_list, exc |-> "", val |-> tops]
    ELSE LET next_top(r, after) ==
               IF r.exc # ""
                 THEN [self |-> after, exc |-> r.exc, val |-> tops]
                 ELSE top_predicates(after, i + 1, Append(tops, r.val))
             with_top(r) == next_top(r, [evidence_list EXCEPT ![i] = r.self])
         IN with_top(get_top_predicate(evidence_list[i]))

get_predicates(A) ==
  LET set_of(r) ==
        [self |-> [A EXCEPT !.evidence_list = r.self],
         exc |-> r.exc,
         val |-> IF r.exc # "" THEN {} ELSE Range(r.val)]
  IN set_of(top_predicates(A.evidence_list, 1, <<>>))

\* the list comprehension of get_aggregate_score, from evidence item i on
RECURSIVE relevant_scores(_, _, _, _)
relevant_scores(evidence_list, predicate, i, scores) ==
  IF i > Len(evidence_list)
    THEN [self |-> evidence_list, exc |-> "", val |-> scores]
    ELSE LET scored(sc, after_sc) ==
               IF sc.exc # ""
                 THEN [self |-> after_sc, exc |-> sc.exc, val |-> scores]
                 ELSE relevant_scores(after_sc, predicate, i + 1,
                                      Append(scores, sc.val[1]))
             with_score(sc) == scored(sc, [evidence_list EXCEPT ![i] = sc.self])
             topped(top, after_top) ==
               IF top.exc # ""
                 THEN [self |-> after_top, exc |-> top.exc, val |-> scores]
               ELSE IF top.val # predicate
                 THEN relevant_scores(after_top, predicate, i + 1, scores)
               ELSE with_score(get_score(top.self, None))
             with_top(top) == topped(top, [evidence_list EXCEPT ![i] = top.self])
         IN with_top(get_top_predicate(evidence_list[i]))

\* a variant of Mean: floor division
MeanFloorDiv(scores) == <<fsum(scores) \div Len(scores), 1>>

\* fsum(relevant_scores) / float(len(relevant_scores))
Mean(scores) == Quotient(fsum(scores), Len(scores))

\* a variant of get_aggregate_score: no relevant score gives the score 0
get_aggregate_score_or_zero(A, predicate) ==
  LET mean_of(r, after) ==
        IF r.exc # "" THEN [self |-> after, exc |-> r.exc, val |-> None]
        ELSE IF Len(r.val) = 0
          THEN [self |-> after, exc |-> "", val |-> <<0, 1>>]
          ELSE [self |-> after, exc |-> "", val |-> Mean(r.val)]
      with_scores(r) == mean_of(r, [A EXCEPT !.evidence_list = r.self])
  IN with_scores(relevant_scores(A.evidence_list, predicate, 1, <<>>))

get_aggregate_score(A, predicate) ==
  LET mean_of(r, after) ==
        IF r.exc # "" THEN [self |-> after, exc |-> r.exc, val |-> None]
        ELSE IF Len(r.val) = 0
          THEN [self |-> after, exc |-> "ZeroDivisionError", val |-> None]
          ELSE [self |-> after, exc |-> "", val |-> Mean(r.val)]
      with_scores(r) == mean_of(r, [A EXCEPT !.evidence_list = r.self])
  IN with_scores(relevant_scores(A.evidence_list, predicate, 1, <<>>))

\* predicate_scores_dict[predicate] = self.get_aggregate_score(predicate), for
\* the predicates left; the dict is the set of its <<key, value>> items
RECURSIVE predicate_scores_from(_, _, _)
predicate_scores_from(A, predicate_list, predicate_scores_dict) ==
  IF predicate_list = <<>>
    THEN [self |-> A, exc |-> "", val |-> predicate_scores_dict]
    ELSE LET predicate == Head(predicate_list)
             stored(r) ==
               IF r.exc # ""
                 THEN [self |-> r.self, exc |-> r.exc, val |-> {}]
                 ELSE predicate_scores_from(r.self, Tail(predicate_list),
                        {item \in predicate_scores_dict : item[1] # predicate}
                          \cup {<<predicate, r.val>>})
         IN stored(get_aggregate_score(A, predicate))

\* order is the iteration order of the set get_predicates returns
get_predicate_scores(A, order) ==
  LET scores_of(preds) ==
        IF preds.exc # ""
          THEN [self |-> preds.self, exc |-> preds.exc, val |-> {}]
          ELSE predicate_scores_from(preds.self,
                 SelectSeq(order, LAMBDA p : p \in preds.val), {})
  IN scores_of(get_predicates(A))

-----------------------------------------------------------------------------
(* models.py: the KGX export.  An edge is the list of its nine columns; an    *)
(* attribute is a record of its type, its value and its nested attributes,    *)
(* the constant texts of an attribute being left out.                         *)

\* '|'.join(items)
RECURSIVE Join(_)
Join(items) ==
  IF Len(items) <= 1 THEN items ELSE <<Head(items), "|">> \o Join(Tail(items))

\* f'tmkp:{ev.evidence_id}'
tmkp(evidence_id) == <<"tmkp:", evidence_id>>

\* json.dumps(attributes_list): the text of the list
json_dumps(attributes_list) == [json |-> attributes_list]

Attribute(attribute_type_id, value) ==
  [attribute_type_id |-> attribute_type_id, value |-> value, attributes |-> <<>>]

\* Evidence.get_json_attributes; entity.span of an evidence item without the
\* entity raises AttributeError
study_get_json_attributes(study) ==
  LET result_of(sc) ==
        IF sc.exc # "" THEN [self |-> sc.self, exc |-> sc.exc, val |-> None]
        ELSE IF sc.self.subject_entity = None \/ sc.self.object_entity = None
          THEN [self |-> sc.self, exc |-> "AttributeError", val |-> None]
          ELSE [self |-> sc.self, exc |-> "",
                val |-> [attribute_type_id |-> "biolink:supporting_study_result",
                         value |-> tmkp(study.evidence_id),
                         attributes |->
                           <<Attribute("biolink:supporting_document", study.document_id),
                             Attribute("biolink:extraction_confidence_score", sc.val),
                             Attribute("biolink:subject_location_in_text",
                                       sc.self.subject_entity[1].span),
                             Attribute("biolink:object_location_in_text",
                                       sc.self.object_entity[1].span)>>]]
  IN result_of(get_score(study, None))

\* for study in evidence_list: attributes_list.append(study.get_json_attributes())
\* evidence_list is the places of the items in A.evidence_list
RECURSIVE study_attributes(_, _, _)
study_attributes(A, evidence_list, attributes_list) ==
  IF evidence_list = <<>>
    THEN [self |-> A, exc |-> "", val |-> attributes_list]
    ELSE LET i == Head(evidence_list)
             appended(r, after) ==
               IF r.exc # ""
                 THEN [self |-> after, exc |-> r.exc, val |-> <<>>]
                 ELSE study_attributes(after, Tail(evidence_list),
                                       Append(attributes_list, r.val))
             with_study(r) == appended(r, [A EXCEPT !.evidence_list[i] = r.self])
         IN with_study(study_get_json_attributes(A.evidence_list[i]))

\* a variant of EvidenceCount: the evidence of the assertion, not of the predicate
EvidenceCountOfAssertion(A, evidence_list) == Len(A.evidence_list)

\* "biolink:has_evidence_count": len(evidence_list)
EvidenceCount(A, evidence_list) == Len(evidence_list)

\* Assertion.get_json_attributes
get_json_attributes(A, predicate, evidence_list) ==
  LET dumped(r) ==
        IF r.exc # "" THEN [self |-> r.self, exc |-> r.exc, val |-> None]
        ELSE [self |-> r.self, exc |-> "", val |-> json_dumps(r.val)]
      attributes_list(agg) ==
        <<Attribute("biolink:original_knowledge_source",
                    "infores:text-mining-provider-targeted"),
          Attribute("biolink:supporting_data_source", "infores:pubmed"),
          Attribute("biolink:has_evidence_count", EvidenceCount(A, evidence_list)),
          Attribute("biolink:tmkp_confidence_score", agg.val),
          Attribute("biolink:supporting_document",
                    Join([k \in 1..Len(evidence_list) |->
                            A.evidence_list[evidence_list[k]].document_id]))>>
      with_score(agg) ==
        IF agg.exc # "" THEN [self |-> agg.self, exc |-> agg.exc, val |-> None]
        ELSE dumped(study_attributes(agg.self, evidence_list, attributes_list(agg)))
  IN with_score(get_aggregate_score(A, predicate))

\* [ev for ev in self.evidence_list if ev.get_top_predicate() == predicate],
\* from evidence item i on: the places of the items
RECURSIVE relevant_evidence(_, _, _, _)
relevant_evidence(A, predicate, i, relevant) ==
  IF i > Len(A.evidence_list)
    THEN [self |-> A, exc |-> "", val |-> relevant]
    ELSE LET kept(top, after) ==
               IF top.exc # ""
                 THEN [self |-> after, exc |-> top.exc, val |-> <<>>]
                 ELSE relevant_evidence(after, predicate, i + 1,
                        IF top.val = predicate THEN Append(relevant, i) ELSE relevant)
             with_top(top) == kept(top, [A EXCEPT !.evidence_list[i] = top.self])
         IN with_top(get_top_predicate(A.evidence_list[i]))

\* the pipe-joined ids of the relevant evidence
supporting_study_results(A, relevant) ==
  Join([k \in 1..Len(relevant) |-> tmkp(A.evidence_list[relevant[k]].evidence_id)])

supporting_publications(A, relevant) ==
  Join([k \in 1..Len(relevant) |-> A.evidence_list[relevant[k]].document_id])

get_edge_kgx(A, predicate) ==
  LET with_attributes(rel, agg, attrs) ==
        IF attrs.exc # "" THEN [self |-> attrs.self, exc |-> attrs.exc, val |-> None]
        ELSE [self |-> attrs.self, exc |-> "",
              val |-> <<A.subject_curie, predicate, A.object_curie, A.assertion_id,
                        A.association_curie, agg.val,
                        supporting_study_results(A, rel.val),
                        supporting_publications(A, rel.val), attrs.val>>]
      with_score(rel, agg) ==
        IF agg.exc # "" THEN [self |-> agg.self, exc |-> agg.exc, val |-> None]
        ELSE with_attributes(rel, agg, get_json_attributes(agg.self, predicate, rel.val))
      with_evidence(rel) ==
        IF rel.exc # "" THEN [self |-> rel.self, exc |-> rel.exc, val |-> None]
        ELSE with_score(rel, get_aggregate_score(rel.self, predicate))
  IN with_evidence(relevant_evidence(A, predicate, 1, <<>>))

get_other_edge_kgx(A, predicate) ==
  LET subject_id == IF subject_uniprot(A) # None THEN subject_uniprot(A)[1]
                    ELSE A.subject_curie
      object_id == IF object_uniprot(A) # None THEN object_uniprot(A)[1]
                   ELSE A.object_curie
      with_attributes(rel, agg, attrs) ==
        IF attrs.exc # "" THEN [self |-> attrs.self, exc |-> attrs.exc, val |-> None]
        ELSE [self |-> attrs.self, exc |-> "",
              val |-> <<subject_id, predicate, object_id, A.assertion_id,
                        A.association_curie, agg.val,
                        supporting_study_results(A, rel.val),
                        supporting_publications(A, rel.val), attrs.val>>]
      with_score(rel, agg) ==
        IF agg.exc # "" THEN [self |-> agg.self, exc |-> agg.exc, val |-> None]
        ELSE with_attributes(rel, agg, get_json_attributes(agg.self, predicate, rel.val))
      with_evidence(rel) ==
        IF rel.exc # "" THEN [self |-> rel.self, exc |-> rel.exc, val |-> None]
        ELSE with_score(rel, get_aggregate_score(rel.self, predicate))
  IN with_evidence(relevant_evidence(A, predicate, 1, <<>>))

\* [self.get_edge_kgx(predicate) for predicate in self.get_predicates()], for
\* the predicates left; other tells get_other_edges_kgx from get_edges_kgx
RECURSIVE edges_kgx_from(_, _, _, _)
edges_kgx_from(A, predicate_list, other, edges) ==
  IF predicate_list = <<>>
    THEN [self |-> A, exc |-> "", val |-> edges]
    ELSE LET appended(r) ==
               IF r.exc # ""
                 THEN [self |-> r.self, exc |-> r.exc, val |-> <<>>]
                 ELSE edges_kgx_from(r.self, Tail(predicate_list), other,
                                     Append(edges, r.val))
         IN appended(IF other THEN get_other_edge_kgx(A, Head(predicate_list))
                     ELSE get_edge_kgx(A, Head(predicate_list)))

\* order is the iteration order of the set get_predicates returns
get_edges_kgx(A, order) ==
  LET edges_of(preds) ==
        IF preds.exc # "" THEN [self |-> preds.self, exc |-> preds.exc, val |-> <<>>]
        ELSE edges_kgx_from(preds.self, SelectSeq(order, LAMBDA p : p \in preds.val),
                            FALSE, <<>>)
  IN edges_of(get_predicates(A))

get_other_edges_kgx(A, order) ==
  LET edges_of(preds) ==
        IF preds.exc # "" THEN [self |-> preds.self, exc |-> preds.exc, val |-> <<>>]
        ELSE edges_kgx_from(preds.self, SelectSeq(order, LAMBDA p : p \in preds.val),
                            TRUE, <<>>)
  IN edges_of(get_predicates(A))

-----------------------------------------------------------------------------
(* controller.py: get_edge_list.  order is the iteration order of the set     *)
(* get_predicates returns: a sequence that lists every predicate once.        *)

\* a variant of EdgeScore: the best score of the assertion for the predicate
EdgeScoreBest(A, ev, predicate) ==
  LET rel == {i \in 1..Len(A.evidence_list) :
                get_top_predicate(A.evidence_list[i]).val = predicate}
      best == CHOOSE i \in rel : \A j \in rel :
                get_score(A.evidence_list[j], predicate).val[1]
                  <= get_score(A.evidence_list[i], predicate).val[1]
  IN get_score(A.evidence_list[best], predicate).val

\* "confidence_score": ev.get_score(predicate)
EdgeScore(A, ev, predicate) == get_score(ev, predicate).val

Edge(A, ev, predicate, sub, obj) ==
  [document_pmid |-> ev.document_id,
   predicate_curie |-> predicate,
   confidence_score |-> EdgeScore(A, ev, predicate),
   subject_span |-> IF ev.subject_entity # None THEN ev.subject_entity[1].span ELSE "0|0",
   object_span |-> IF ev.object_entity # None THEN ev.object_entity[1].span ELSE "0|0",
   subject_curie |-> sub,
   object_curie |-> obj,
   version |-> ev.version]

\* a variant of EvidenceEdges: the top predicate of the item is not compared
RECURSIVE EvidenceEdgesOfAll(_, _, _, _, _)
EvidenceEdgesOfAll(A, predicate, sub, obj, i) ==
  IF i > Len(A.evidence_list) THEN <<>>
  ELSE <<Edge(A, get_top_predicate(A.evidence_list[i]).self, predicate, sub, obj)>>
       \o EvidenceEdgesOfAll(A, predicate, sub, obj, i + 1)

\* for ev in assertion.evidence_list: if ev.get_top_predicate() == predicate: append
RECURSIVE EvidenceEdges(_, _, _, _, _)
EvidenceEdges(A, predicate, sub, obj, i) ==
  IF i > Len(A.evidence_list) THEN <<>>
  ELSE LET ev == A.evidence_list[i] IN
       (IF get_top_predicate(ev).val = predicate
          THEN <<Edge(A, get_top_predicate(ev).self, predicate, sub, obj)>>
          ELSE <<>>)
       \o EvidenceEdges(A, predicate, sub, obj, i + 1)

\* for predicate in predicate_list: ...
RECURSIVE PredicateEdges(_, _, _, _)
PredicateEdges(A, predicate_list, sub, obj) ==
  IF predicate_list = <<>> THEN <<>>
  ELSE EvidenceEdges(A, Head(predicate_list), sub, obj, 1)
       \o PredicateEdges(A, Tail(predicate_list), sub, obj)

\* sub, obj: the raw curies, or the cross-references when use_uniprot
EdgeSubject(A, use_uniprot) ==
  IF use_uniprot /\ subject_uniprot(A) # None
    THEN subject_uniprot(A)[1] ELSE A.subject_curie

EdgeObject(A, use_uniprot) ==
  IF use_uniprot /\ object_uniprot(A) # None
    THEN object_uniprot(A)[1] ELSE A.object_curie

InSet(S, p) == p \in S

\* for assertion in assertions: ..., from assertion a on
RECURSIVE get_edge_list_from(_, _, _, _, _)
get_edge_list_from(assertions, use_uniprot, orders, a, edge_list) ==
  IF a > Len(assertions)
    THEN [self |-> assertions, exc |-> "", val |-> edge_list]
    ELSE LET extended(preds, after, predicate_list) ==
               IF preds.exc # ""
                 THEN [self |-> after, exc |-> preds.exc, val |-> <<>>]
                 ELSE get_edge_list_from(after, use_uniprot, orders, a + 1,
                        edge_list \o PredicateEdges(preds.self, predicate_list,
                                                    EdgeSubject(preds.self, use_uniprot),
                                                    EdgeObject(preds.self, use_uniprot)))
             with_predicates(preds) ==
               extended(preds, [assertions EXCEPT ![a] = preds.self],
                        SelectSeq(orders[a], LAMBDA p : InSet(preds.val, p)))
         IN with_predicates(get_predicates(assertions[a]))

get_edge_list(assertions, use_uniprot, orders) ==
  get_edge_list_from(assertions, use_uniprot, orders, 1, <<>>)

-----------------------------------------------------------------------------
(* controller.py: assertion_query *)

\* models.Assertion.subject_uniprot.has(models.PRtoUniProt.uniprot == curie)
SubjectXrefIs(A, curie) == subject_uniprot(A) = Some(curie)

ObjectXrefIs(A, curie) == object_uniprot(A) = Some(curie)

\* the .where(...) of the branch the handler takes
Where(A, subject_curie, object_curie) ==
  IF Lower(subject_curie) = ANY_LOWER
    THEN IF Lower(object_curie) = ANY_LOWER
           THEN TRUE
         ELSE IF StartsWith(object_curie, UNIPROT_PREFIX)
           THEN ObjectXrefIs(A, object_curie)
           ELSE A.object_curie = object_curie
    ELSE IF object_curie = ANY_TITLE
           THEN IF StartsWith(subject_curie, UNIPROT_PREFIX)
                  THEN SubjectXrefIs(A, subject_curie)
                  ELSE A.subject_curie = subject_curie
         ELSE IF StartsWith(object_curie, UNIPROT_PREFIX)
           THEN IF StartsWith(subject_curie, UNIPROT_PREFIX)
                  THEN ObjectXrefIs(A, object_curie) /\ SubjectXrefIs(A, subject_curie)
                  ELSE ObjectXrefIs(A, object_curie) /\ A.subject_curie = subject_curie
           ELSE IF StartsWith(subject_curie, UNIPROT_PREFIX)
                  THEN A.object_curie = object_curie /\ SubjectXrefIs(A, subject_curie)
                  ELSE A.subject_curie = subject_curie /\ A.object_curie = object_curie

Min(a, b) == IF a <= b THEN a ELSE b

\* the rows s.query(models.Assertion).where(...) matches, in table order
Matching(rows, subject_curie, object_curie) ==
  {a \in 1..Len(rows) : Where(rows[a], subject_curie, object_curie)}

\* .limit(EDGE_LIMIT): how many of the matching rows are loaded
Limit(matching) == Min(EDGE_LIMIT, Cardinality(matching))

\* the indices of a set, ascending
RECURSIVE Ascending(_)
Ascending(S) ==
  IF S = {} THEN <<>>
  ELSE LET m == CHOOSE x \in S : \A y \in S : x <= y IN <<m>> \o Ascending(S \ {m})

\* a variant of UseUniprot: the object is not looked at
UseUniprotSubjectOnly(subject_curie, object_curie) ==
  StartsWith(subject_curie, UNIPROT_PREFIX)

\* use_uniprot=(subject_curie.startswith('UniProtKB') or object_curie.startswith('UniProtKB'))
UseUniprot(subject_curie, object_curie) ==
  StartsWith(subject_curie, UNIPROT_PREFIX) \/ StartsWith(object_curie, UNIPROT_PREFIX)

\* a variant of KeepEdge: the version test left out
KeepEdgeAnyVersion(edge, predicate_curie) ==
  edge.predicate_curie = predicate_curie \/ predicate_curie = ANY_TITLE

\* if 2 not in edge["version"]: continue
\* if edge["predicate_curie"] == predicate_curie or predicate_curie == 'Any': append
KeepEdge(edge, predicate_curie) ==
  /\ CURRENT_VERSION \in Range(edge.version)
  /\ (edge.predicate_curie = predicate_curie \/ predicate_curie = ANY_TITLE)

FilterEdges(edge_list, predicate_curie) ==
  SelectSeq(edge_list, LAMBDA edge : KeepEdge(edge, predicate_curie))

Reverse(xs) == [i \in 1..Len(xs) |-> xs[Len(xs) + 1 - i]]

\* a variant of SortEdges: sorted ascending, then reversed
SortEdgesThenReverse(edges) ==
  Permute(edges,
          Reverse(SortDescOrder([i \in 1..Len(edges) |-> 0 - edges[i].confidence_score[1]])))

\* edges.sort(key=lambda x: x['confidence_score'], reverse=True)
SortEdges(edges) ==
  Permute(edges, SortDescOrder([i \in 1..Len(edges) |-> edges[i].confidence_score[1]]))

-----------------------------------------------------------------------------
(* services.get_normalized_nodes, as the specification describes it: one      *)
(* call with the identifiers of the request; the result maps an identifier to *)
(* its label, an identifier the service cannot resolve is absent from it, and *)
(* when the service fails or times out the result has no entry at all.  The   *)
(* map is the set of its <<key, value>> items.                                *)

\* "protein 1", the label of PR:1 and of its cross-reference
PROTEIN1 == <<"p","r","o","t","e","i","n"," ","1">>

\* what the normalization service resolves
node_labels == [curie \in {PR1, UP1} |-> PROTEIN1]

\* how a call of the service goes
Upstream == {"ok", "unavailable"}

get_normalized_nodes(curies, upstream) ==
  IF upstream = "unavailable" THEN {}
  ELSE {<<curie, node_labels[curie]>> : curie \in Range(curies) \cap DOMAIN node_labels}

\* a variant of NodeText: no fallback to the curie
NodeTextOrNone(normalized_nodes, curie) ==
  IF \E item \in normalized_nodes : item[1] = curie
    THEN (CHOOSE item \in normalized_nodes : item[1] = curie)[2]
    ELSE None

\* normalized_nodes[curie] if curie in normalized_nodes else curie
NodeText(normalized_nodes, curie) ==
  IF \E item \in normalized_nodes : item[1] = curie
    THEN (CHOOSE item \in normalized_nodes : item[1] = curie)[2]
    ELSE curie

-----------------------------------------------------------------------------
(* The data the program runs on *)

SeqsUpTo(S, n) == UNION {[1..k -> S] : k \in 0..n}

\* the version lists of an evidence row: a later ingestion adds its tag
Versions == {<<1>>, <<1, 2>>}

\* evidence_score rows: (evidence_id, predicate_curie) is unique
ScoreRows == [predicate_curie : predicates, score : 1..MaxScore]

ScoreLists ==
  {sl \in SeqsUpTo(ScoreRows, Cardinality(predicates)) :
     \A i, j \in 1..Len(sl) : i # j => sl[i].predicate_curie # sl[j].predicate_curie}

\* the iteration orders of a set of predicates
PredOrders ==
  {o \in [1..Cardinality(predicates) -> predicates] :
     \A i, j \in 1..Len(o) : i # j => o[i] # o[j]}

\* an entity row
Entity == [span |-> "3|9"]

\* rows get their primary keys from their place: assertion a, evidence i
WithIds(raw) ==
  [a \in 1..Len(raw) |->
     [assertion_id |-> a,
      subject_curie |-> raw[a].subject_curie,
      object_curie |-> raw[a].object_curie,
      association_curie |-> "biolink:ChemicalToGeneAssociation",
      evidence_list |->
        [i \in 1..Len(raw[a].evidence_list) |->
           [evidence_id |-> 100 * a + i,
            document_id |-> 10 * a + i,
            subject_entity |-> Some(Entity),
            object_entity |-> Some(Entity),
            evidence_scores |-> raw[a].evidence_list[i].evidence_scores,
            version |-> raw[a].evidence_list[i].version]]]]

\* the rows with subject_entity_id NULL in the evidence items of the first
\* assertion that missing lists
WithoutSubjectEntity(rows, missing) ==
  [rows EXCEPT ![1].evidence_list =
     [i \in 1..Len(rows[1].evidence_list) |->
        IF i \in missing THEN [rows[1].evidence_list[i] EXCEPT !.subject_entity = None]
        ELSE rows[1].evidence_list[i]]]

RECURSIVE TotalEvidence(_)
TotalEvidence(rows) ==
  IF rows = <<>> THEN 0 ELSE Len(Head(rows).evidence_list) + TotalEvidence(Tail(rows))

\* the stores the queries run on hold up to one assertion more than the
\* limit, so that a selection can exceed it; a store of one assertion holds
\* up to MaxEvidence evidence items, a larger store MaxRows in total
MaxRows == EDGE_LIMIT + 1

\* the evidence of the query stores: every evidence row has a score, the
\* first-listed candidate being biolink:treats, a second one scoring highest
QueryScoreLists ==
  {sl \in ScoreLists :
     /\ Len(sl) > 0
     /\ sl[1].predicate_curie = TREATS
     /\ Len(sl) > 1 => sl[2].score = MaxScore}

QueryAssertions(n) ==
  {A \in [subject_curie : {PR1, CHEBI2}, object_curie : {PR1, CHEBI2},
          evidence_list :
            SeqsUpTo([evidence_scores : QueryScoreLists, version : Versions], n)] :
     A.subject_curie # A.object_curie}

QueryStores ==
  {WithIds(<<A>>) : A \in QueryAssertions(MaxEvidence)}
  \cup
  {WithIds(raw) : raw \in
     {rows \in UNION {[1..k -> QueryAssertions(MaxRows)] : k \in 2..MaxRows} :
        TotalEvidence(rows) <= MaxRows}}

\* the stores that are exported: one assertion with every shape of evidence,
\* an item with no score and an item with no subject entity included
KgxStores ==
  {WithoutSubjectEntity(rows, missing) :
     rows \in {WithIds(<<A>>) : A \in
                [subject_curie : {PR1}, object_curie : {CHEBI2},
                 evidence_list :
                   SeqsUpTo([evidence_scores : ScoreLists, version : {<<1, 2>>}],
                            MaxEvidence)]},
     missing \in SUBSET (1..MaxEvidence)}

\* one assertion with every shape of evidence, an item with no score
\* included, or MaxRows assertions of one evidence item each
CoreStores ==
  {WithIds(<<A>>) : A \in
     [subject_curie : {PR1}, object_curie : {CHEBI2},
      evidence_list :
        SeqsUpTo([evidence_scores : ScoreLists, version : {<<1, 2>>}], MaxEvidence)]}
  \cup
  {WithIds(raw) : raw \in
     [1..MaxRows ->
        [subject_curie : {PR1}, object_curie : {CHEBI2},
         evidence_list : [1..1 -> [evidence_scores : ScoreLists, version : {<<1, 2>>}]]]]}

\* the stores the pages are looked up in: up to MaxRows assertions, each
\* piece of evidence in the first release only or in both
PageAssertions ==
  [subject_curie : {PR1}, object_curie : {CHEBI2},
   evidence_list :
     SeqsUpTo([evidence_scores : {<<[predicate_curie |-> TREATS, score |-> MaxScore]>>},
               version : Versions], MaxEvidence)]

PageStores == {WithIds(raw) : raw \in SeqsUpTo(PageAssertions, MaxRows)}

\* the ids of the paths looked up: an assertion_id a store of MaxRows rows
\* holds, and an evidence_id its first assertion holds with MaxEvidence items
LookupAssertionIds == 1..MaxRows

LookupEvidenceIds == {100 + i : i \in 1..MaxEvidence}

\* what a request may carry
Spellings == {ANY_LOWER, ANY_TITLE, ANY_UPPER}

QuerySubjects == Spellings \cup {PR1, UP1}

QueryObjects == Spellings \cup {CHEBI2, UP1}

QueryPredicates == Spellings \cup {TREATS}

\* the requests: a body that is not JSON, a JSON body that lacks one of
\* the three fields (None), and the bodies that carry all three
Requests ==
  {[route |-> "/query/", id |-> 0, is_json |-> FALSE,
    subject_curie |-> None, predicate_curie |-> None, object_curie |-> None]}
  \cup
  {body \in [route : {"/query/"}, id : {0}, is_json : {TRUE},
             subject_curie : {None, ANY_TITLE},
             predicate_curie : {None, ANY_TITLE}, object_curie : {None, ANY_TITLE}] :
     Cardinality({f \in {"s", "p", "o"} :
                    \/ f = "s" /\ body.subject_curie = None
                    \/ f = "p" /\ body.predicate_curie = None
                    \/ f = "o" /\ body.object_curie = None}) = 1}
  \cup
  [route : {"/query/"}, id : {0}, is_json : {TRUE}, subject_curie : QuerySubjects,
   predicate_curie : QueryPredicates, object_curie : QueryObjects]

\* a request: its route, the id of its path (0 when the route has none), and
\* what a POST carries
NoRequest ==
  [route |-> "", id |-> 0, is_json |-> FALSE,
   subject_curie |-> None, predicate_curie |-> None, object_curie |-> None]

\* the locals of assertion_query; upstream is how the normalization call went
\* ("" when it was not made)
NoFrame ==
  [assertion_list |-> <<>>, use_uniprot |-> FALSE, edge_list |-> <<>>,
   upstream |-> "", normalized_nodes |-> {}]

\* the "query" part of the results of /query/
NoQuery ==
  [subject_curie |-> None, subject_text |-> None, predicate_curie |-> None,
   object_curie |-> None, object_text |-> None]

\* a response: its status, its body (a literal text, the name of the template
\* rendered, or "json" for json.dumps(results)), the id of the record the
\* template renders, and the two parts of the results
Respond(status, body) ==
  [status |-> status, body |-> body, record |-> None, query |-> NoQuery, results |-> <<>>]

NoResponse == Respond(0, "")

\* what the framework answers when a handler raises
INTERNAL_SERVER_ERROR == Respond(500, "Internal Server Error")

NoCall == [op |-> "", a |-> 0, i |-> 0, arg |-> None, exc |-> "", val |-> None]

-----------------------------------------------------------------------------
(* The HTTP service: POST /query/ *)

Init ==
  /\ store \in QueryStores
  /\ session = <<>>
  /\ cache = {}
  /\ request = NoRequest
  /\ frame = NoFrame
  /\ response = NoResponse
  /\ ret = NoCall

\* the selection, the edge list and the results of a body with its three fields
QueryDone(body) ==
  LET subject_curie == body.subject_curie
      predicate_curie == body.predicate_curie
      object_curie == body.object_curie
      matching == Matching(store, subject_curie, object_curie)
  IN \E chosen \in SUBSET matching :
       /\ Cardinality(chosen) = Limit(matching)
       /\ \E orders \in [1..Cardinality(chosen) -> PredOrders] :
            LET rows == Ascending(chosen)
                assertion_list == [k \in 1..Len(rows) |-> store[rows[k]]]
                use_uniprot == UseUniprot(subject_curie, object_curie)
                built == get_edge_list(assertion_list, use_uniprot, orders)
            IN /\ session' = built.self
               /\ IF built.exc # ""
                    THEN /\ frame' = [NoFrame EXCEPT !.assertion_list = rows,
                                                     !.use_uniprot = use_uniprot]
                         /\ response' = INTERNAL_SERVER_ERROR
                    ELSE \E upstream \in Upstream :
                           LET normalized_nodes ==
                                 get_normalized_nodes(<<subject_curie, object_curie>>, upstream)
                           IN /\ frame' = [assertion_list |-> rows,
                                           use_uniprot |-> use_uniprot,
                                           edge_list |-> built.val,
                                           upstream |-> upstream,
                                           normalized_nodes |-> normalized_nodes]
                              /\ response' =
                                   [Respond(200, "json") EXCEPT
                                      !.query =
                                        [subject_curie |-> subject_curie,
                                         subject_text |-> NodeText(normalized_nodes, subject_curie),
                                         predicate_curie |-> predicate_curie,
                                         object_curie |-> object_curie,
                                         object_text |-> NodeText(normalized_nodes, object_curie)],
                                      !.results =
                                        SortEdges(FilterEdges(built.val, predicate_curie))]

\* a variant of MissingField: only the subject is read before the query
MissingSubject(body) == body.subject_curie = None

\* request_dict['subject'], request_dict['predicate'], request_dict['object']:
\* the body lacks one of the keys
MissingField(body) ==
  None \in {body.subject_curie, body.predicate_curie, body.object_curie}

\* assertion_query: one request at a time in a session.  The objects the
\* query loads live in the session until the teardown of the request.  A body
\* that is not JSON is answered 400; reading a field the body lacks raises
\* KeyError, which the framework answers 500.  The response is its status and
\* the two parts of its results.
assertion_query(body) ==
  /\ response.status = 0
  /\ request' = body
  /\ IF ~body.is_json
       THEN /\ response' = Respond(400, "something else")
            /\ UNCHANGED <<session, frame>>
     ELSE IF MissingField(body)
       THEN /\ response' = INTERNAL_SERVER_ERROR
            /\ UNCHANGED <<session, frame>>
       ELSE QueryDone(body)
  /\ UNCHANGED <<store, cache, ret>>

\* shutdown_session: Session.remove() when the request ends
shutdown_session ==
  /\ response.status # 0
  /\ session' = <<>>
  /\ request' = NoRequest
  /\ frame' = NoFrame
  /\ response' = NoResponse
  /\ UNCHANGED <<store, cache, ret>>

-----------------------------------------------------------------------------
(* The HTTP service: GET /assertion/<aid>, GET /evidence/<evidence_id>.  Both *)
(* views are wrapped by @cache.cached(timeout=30): the cache is keyed by the  *)
(* path, a hit answers without calling the view, a miss stores what the view  *)
(* returns, and an entry leaves the cache when its timeout has passed.        *)

\* a variant of InCurrentVersion: any version tag counts
InAnyVersion(evidence) == evidence.version # <<>>

\* 2 in [v.version for v in evidence.version]
InCurrentVersion(evidence) == CURRENT_VERSION \in Range(evidence.version)

\* for evidence in assertion.evidence_list: ... current_version_evidence_count += 1
RECURSIVE current_version_evidence_count(_, _)
current_version_evidence_count(evidence_list, i) ==
  IF i > Len(evidence_list) THEN 0
  ELSE (IF InCurrentVersion(evidence_list[i]) THEN 1 ELSE 0)
       + current_version_evidence_count(evidence_list, i + 1)

\* s.query(models.Assertion).filter(models.Assertion.assertion_id == aid)
assertion_query_by_id(aid) == {a \in 1..Len(store) : store[a].assertion_id = aid}

\* s.query(models.Evidence).filter(models.Evidence.evidence_id == evidence_id)
evidence_query_by_id(evidence_id) ==
  {ai \in {<<a, i>> : a \in 1..Len(store), i \in 1..MaxEvidence} :
     /\ ai[2] <= Len(store[ai[1]].evidence_list)
     /\ store[ai[1]].evidence_list[ai[2]].evidence_id = evidence_id}

\* the view assertion_lookup: the objects it loads and what it returns;
\* .one() raises when the query has more than one row
AssertionView(aid) ==
  LET rows == assertion_query_by_id(aid) IN
  IF Cardinality(rows) = 0
    THEN [loaded |-> <<>>, response |-> Respond(200, "No results found")]
  ELSE IF Cardinality(rows) > 1
    THEN [loaded |-> <<>>, response |-> INTERNAL_SERVER_ERROR]
  ELSE LET assertion == store[CHOOSE a \in rows : TRUE] IN
       IF current_version_evidence_count(assertion.evidence_list, 1) = 0
         THEN [loaded |-> <<assertion>>,
               response |-> Respond(200, "No results found in current version")]
         ELSE [loaded |-> <<assertion>>,
               response |-> [Respond(200, "assertion.html") EXCEPT
                               !.record = Some(assertion.assertion_id)]]

\* the view evidence_lookup; the session holds Assertion objects, and the
\* view loads none
EvidenceView(evidence_id) ==
  LET rows == evidence_query_by_id(evidence_id) IN
  IF Cardinality(rows) = 0
    THEN [loaded |-> <<>>, response |-> Respond(200, "No results found")]
  ELSE IF Cardinality(rows) > 1
    THEN [loaded |-> <<>>, response |-> INTERNAL_SERVER_ERROR]
  ELSE LET ai == CHOOSE x \in rows : TRUE
           evidence == store[ai[1]].evidence_list[ai[2]]
       IN IF ~InCurrentVersion(evidence)
            THEN [loaded |-> <<>>,
                  response |-> Respond(200, "No results found in current version")]
            ELSE [loaded |-> <<>>,
                  response |-> [Respond(200, "evidence.html") EXCEPT
                                  !.record = Some(evidence.evidence_id)]]

\* the cache entries of a path
Cached(route, id) == {entry \in cache : entry.route = route /\ entry.id = id}

\* @cache.cached around a view; a view that raises stores nothing
CachedView(route, id, view) ==
  IF Cached(route, id) # {}
    THEN /\ response' = (CHOOSE entry \in Cached(route, id) : TRUE).response
         /\ UNCHANGED <<session, cache>>
    ELSE /\ response' = view.response
         /\ session' = view.loaded
         /\ cache' = IF view.response.status = 500 THEN cache
                     ELSE cache \cup {[route |-> route, id |-> id,
                                       response |-> view.response]}

assertion_lookup(aid) ==
  /\ response.status = 0
  /\ request' = [NoRequest EXCEPT !.route = "/assertion/", !.id = aid]
  /\ CachedView("/assertion/", aid, AssertionView(aid))
  /\ UNCHANGED <<store, frame, ret>>

evidence_lookup(evidence_id) ==
  /\ response.status = 0
  /\ request' = [NoRequest EXCEPT !.route = "/evidence/", !.id = evidence_id]
  /\ CachedView("/evidence/", evidence_id, EvidenceView(evidence_id))
  /\ UNCHANGED <<store, frame, ret>>

\* CACHE_DEFAULT_TIMEOUT / timeout=30: an entry expires
cache_timeout(entry) ==
  /\ entry \in cache
  /\ cache' = cache \ {entry}
  /\ UNCHANGED <<store, session, request, frame, response, ret>>

InitPages ==
  /\ store \in PageStores
  /\ session = <<>>
  /\ cache = {}
  /\ request = NoRequest
  /\ frame = NoFrame
  /\ response = NoResponse
  /\ ret = NoCall

NextPages ==
  \/ \E aid \in LookupAssertionIds : assertion_lookup(aid)
  \/ \E evidence_id \in LookupEvidenceIds : evidence_lookup(evidence_id)
  \/ \E entry \in cache : cache_timeout(entry)
  \/ shutdown_session

SpecPages == InitPages /\ [][NextPages]_vars

-----------------------------------------------------------------------------
(* The HTTP service: POST /query/ and the teardown *)

Next ==
  \/ \E body \in Requests : assertion_query(body)
  \/ shutdown_session

Spec == Init /\ [][Next]_vars

-----------------------------------------------------------------------------
(* The model classes, called on the objects a session has loaded *)

InitCore ==
  /\ store \in CoreStores
  /\ session = store
  /\ cache = {}
  /\ request = NoRequest
  /\ frame = NoFrame
  /\ response = NoResponse
  /\ ret = NoCall

Returned(op, a, i, arg, call) ==
  [op |-> op, a |-> a, i |-> i, arg |-> arg, exc |-> call.exc, val |-> call.val]

CallTopPredicate(a, i) ==
  /\ a \in 1..Len(session) /\ i \in 1..Len(session[a].evidence_list)
  /\ LET call == get_top_predicate(session[a].evidence_list[i]) IN
       /\ session' = [session EXCEPT ![a].evidence_list[i] = call.self]
       /\ ret' = Returned("get_top_predicate", a, i, None, call)
  /\ UNCHANGED <<store, cache, request, frame, response>>

CallScore(a, i, predicate) ==
  /\ a \in 1..Len(session) /\ i \in 1..Len(session[a].evidence_list)
  /\ LET call == get_score(session[a].evidence_list[i], predicate) IN
       /\ session' = [session EXCEPT ![a].evidence_list[i] = call.self]
       /\ ret' = Returned("get_score", a, i, predicate, call)
  /\ UNCHANGED <<store, cache, request, frame, response>>

CallPredicates(a) ==
  /\ a \in 1..Len(session)
  /\ LET call == get_predicates(session[a]) IN
       /\ session' = [session EXCEPT ![a] = call.self]
       /\ ret' = Returned("get_predicates", a, 0, None, call)
  /\ UNCHANGED <<store, cache, request, frame, response>>

CallAggregateScore(a, predicate) ==
  /\ a \in 1..Len(session)
  /\ LET call == get_aggregate_score(session[a], predicate) IN
       /\ session' = [session EXCEPT ![a] = call.self]
       /\ ret' = Returned("get_aggregate_score", a, 0, predicate, call)
  /\ UNCHANGED <<store, cache, request, frame, response>>

CallPredicateScores(a) ==
  /\ a \in 1..Len(session)
  /\ \E order \in PredOrders :
       LET call == get_predicate_scores(session[a], order) IN
         /\ session' = [session EXCEPT ![a] = call.self]
         /\ ret' = Returned("get_predicate_scores", a, 0, None, call)
  /\ UNCHANGED <<store, cache, request, frame, response>>

CallEdgeList(use_uniprot) ==
  /\ \E orders \in [1..Len(session) -> PredOrders] :
       LET call == get_edge_list(session, use_uniprot, orders) IN
         /\ session' = call.self
         /\ ret' = Returned("get_edge_list", 0, 0, Some(use_uniprot), call)
  /\ UNCHANGED <<store, cache, request, frame, response>>

NextCore ==
  \/ \E a \in 1..Len(session), i \in 1..MaxEvidence : CallTopPredicate(a, i)
  \/ \E a \in 1..Len(session), i \in 1..MaxEvidence, predicate \in {None} \cup predicates :
       CallScore(a, i, predicate)
  \/ \E a \in 1..Len(session) : CallPredicates(a)
  \/ \E a \in 1..Len(session), predicate \in predicates : CallAggregateScore(a, predicate)
  \/ \E a \in 1..Len(session) : CallPredicateScores(a)
  \/ \E use_uniprot \in BOOLEAN : CallEdgeList(use_uniprot)

SpecCore == InitCore /\ [][NextCore]_vars

-----------------------------------------------------------------------------
(* The export, called on the objects a session has loaded *)

InitKgx ==
  /\ store \in KgxStores
  /\ session = store
  /\ cache = {}
  /\ request = NoRequest
  /\ frame = NoFrame
  /\ response = NoResponse
  /\ ret = NoCall

CallEdgesKgx(a) ==
  /\ a \in 1..Len(session)
  /\ \E order \in PredOrders :
       LET call == get_edges_kgx(session[a], order) IN
         /\ session' = [session EXCEPT ![a] = call.self]
         /\ ret' = Returned("get_edges_kgx", a, 0, None, call)
  /\ UNCHANGED <<store, cache, request, frame, response>>

CallOtherEdgesKgx(a) ==
  /\ a \in 1..Len(session)
  /\ \E order \in PredOrders :
       LET call == get_other_edges_kgx(session[a], order) IN
         /\ session' = [session EXCEPT ![a] = call.self]
         /\ ret' = Returned("get_other_edges_kgx", a, 0, None, call)
  /\ UNCHANGED <<store, cache, request, frame, response>>

NextKgx ==
  \/ \E a \in 1..Len(session) : CallEdgesKgx(a)
  \/ \E a \in 1..Len(session) : CallOtherEdgesKgx(a)

SpecKgx == InitKgx /\ [][NextKgx]_vars

-----------------------------------------------------------------------------
(* What the specification says, stated without the code's operators *)

\* the rows of an evidence item as a set
ScoreSet(ev) == Range(ev.evidence_scores)

\* topPredicate: the predicate of the highest score, the first-listed of a tie
SpecTopPredicate(ev) ==
  LET rows == ev.evidence_scores
      top == CHOOSE i \in 1..Len(rows) : \A j \in 1..Len(rows) :
               \/ rows[j].score < rows[i].score
               \/ rows[j].score = rows[i].score /\ i <= j
  IN rows[top].predicate_curie

\* scoreFor: the score of the row of the predicate
SpecScoreFor(ev, p) ==
  IF \E row \in ScoreSet(ev) : row.predicate_curie = p
    THEN Some((CHOOSE row \in ScoreSet(ev) : row.predicate_curie = p).score)
    ELSE None

AllScored(A) ==
  \A i \in 1..Len(A.evidence_list) : Len(A.evidence_list[i].evidence_scores) > 0

\* the evidence items of A whose top predicate is p
Supporting(A, p) ==
  {i \in 1..Len(A.evidence_list) : SpecTopPredicate(A.evidence_list[i]) = p}

RECURSIVE SumScores(_, _, _)
SumScores(A, p, items) ==
  IF items = {} THEN 0
  ELSE LET i == CHOOSE x \in items : TRUE
       IN SpecScoreFor(A.evidence_list[i], p)[1] + SumScores(A, p, items \ {i})

\* a = b * c as fractions: frac = <<n, d>> is total / count
IsMean(frac, total, count) == frac[1] * count = total * frac[2]

Reorderings(n) ==
  {f \in [1..n -> 1..n] : \A i, j \in 1..n : i # j => f[i] # f[j]}

\* the assertion row and the evidence row an edge was built from
EdgeRow(edge) ==
  CHOOSE a \in 1..Len(store) : \E i \in 1..Len(store[a].evidence_list) :
    store[a].evidence_list[i].document_id = edge.document_pmid

EdgeEvidence(edge) ==
  LET A == store[EdgeRow(edge)] IN
  A.evidence_list[CHOOSE i \in 1..Len(A.evidence_list) :
                    A.evidence_list[i].document_id = edge.document_pmid]

-----------------------------------------------------------------------------
(* C1 *)

\* C1 as stated: every edge get_edge_list emits for an assertion A with
\* predicate p carries confidence_score = aggregateScore(A, p), the mean over
\* the evidence of A whose top predicate is p.
C1_EdgeScoreIsAggregate ==
  response.status = 200 =>
    \A k \in 1..Len(frame.edge_list) :
      LET edge == frame.edge_list[k]
          A == store[EdgeRow(edge)]
          p == edge.predicate_curie
      IN IsMean(<<edge.confidence_score[1], 1>>,
                SumScores(A, p, Supporting(A, p)), Cardinality(Supporting(A, p)))

\* C1 as amended: every edge get_edge_list emits carries the score of its own
\* evidence item for the edge's predicate, which is the item's top predicate
\* and so the item's highest score.
C1_EdgeScoreIsEvidenceScore ==
  response.status = 200 =>
    \A k \in 1..Len(frame.edge_list) :
      LET edge == frame.edge_list[k]
          ev == EdgeEvidence(edge)
      IN /\ edge.predicate_curie = SpecTopPredicate(ev)
         /\ edge.confidence_score = SpecScoreFor(ev, edge.predicate_curie)
         /\ \A row \in ScoreSet(ev) : row.score <= edge.confidence_score[1]

\* two edges of one assertion and one predicate with different scores
C1_Witness ==
  /\ response.status = 200
  /\ \E k, m \in 1..Len(frame.edge_list) :
       /\ EdgeRow(frame.edge_list[k]) = EdgeRow(frame.edge_list[m])
       /\ frame.edge_list[k].predicate_curie = frame.edge_list[m].predicate_curie
       /\ frame.edge_list[k].confidence_score # frame.edge_list[m].confidence_score

-----------------------------------------------------------------------------
(* C2 *)

\* the assertion with its evidence list reordered by f
Reordered(A, f) ==
  [A EXCEPT !.evidence_list = [i \in 1..Len(A.evidence_list) |-> A.evidence_list[f[i]]]]

\* C2: for every assertion A and every predicate p that get_predicates(A)
\* returns, get_aggregate_score(A, p) is the sum of scoreFor(e, p) over exactly
\* the evidence items e of A with topPredicate(e) = p, divided by their number,
\* and it is the same for every permutation of A's evidence list; a call of
\* get_aggregate_score that returns has returned that value.
C2_AggregateIsMean ==
  /\ \A a \in 1..Len(session) :
       LET A == session[a] IN
       get_predicates(A).exc = "" =>
         \A p \in get_predicates(A).val :
           /\ get_aggregate_score(A, p).exc = ""
           /\ IsMean(get_aggregate_score(A, p).val,
                     SumScores(A, p, Supporting(A, p)), Cardinality(Supporting(A, p)))
           /\ Cardinality(Supporting(A, p)) > 0
           /\ \A f \in Reorderings(Len(A.evidence_list)) :
                get_aggregate_score(Reordered(A, f), p).val = get_aggregate_score(A, p).val
  /\ (ret.op = "get_aggregate_score" /\ ret.exc = "") =>
       IsMean(ret.val, SumScores(session[ret.a], ret.arg, Supporting(session[ret.a], ret.arg)),
              Cardinality(Supporting(session[ret.a], ret.arg)))

\* get_aggregate_score has returned the mean 3/2 of two different scores
C2_Witness ==
  /\ ret.op = "get_aggregate_score" /\ ret.exc = ""
  /\ ret.val = <<3, 2>>
  /\ Cardinality(Supporting(session[ret.a], ret.arg)) = 2

-----------------------------------------------------------------------------
(* C3 *)

\* C3: for every assertion A whose evidence items each have a score,
\* get_predicates(A) is exactly the set of the top predicates of A's evidence
\* and a subset of the predicates of the score rows of A's evidence; a call of
\* get_predicates on such an assertion has returned that set.
C3_PredicatesAreTops ==
  /\ \A a \in 1..Len(session) :
       LET A == session[a] IN
       AllScored(A) =>
         /\ get_predicates(A).exc = ""
         /\ get_predicates(A).val =
              {SpecTopPredicate(A.evidence_list[i]) : i \in 1..Len(A.evidence_list)}
         /\ get_predicates(A).val \subseteq
              UNION {{row.predicate_curie : row \in ScoreSet(A.evidence_list[i])} :
                       i \in 1..Len(A.evidence_list)}
  /\ (ret.op = "get_predicates" /\ AllScored(session[ret.a])) =>
       /\ ret.exc = ""
       /\ ret.val = {SpecTopPredicate(session[ret.a].evidence_list[i]) :
                       i \in 1..Len(session[ret.a].evidence_list)}

\* get_predicates has collapsed two items of one top predicate to one entry,
\* though the items list two predicates
C3_Witness ==
  /\ ret.op = "get_predicates" /\ ret.exc = ""
  /\ Len(session[ret.a].evidence_list) = 2
  /\ Cardinality(ret.val) = 1
  /\ \E i \in 1..2 : Len(session[ret.a].evidence_list[i].evidence_scores) = 2

-----------------------------------------------------------------------------
(* The query rules of the specification *)

\* the wildcard token, in any of its spellings
IsWildcard(token) == token \in Spellings

\* an identifier of the external namespace
HasXrefPrefix(token) ==
  /\ Len(token) >= Len(UNIPROT_PREFIX)
  /\ \A i \in 1..Len(UNIPROT_PREFIX) : token[i] = UNIPROT_PREFIX[i]

\* the condition one side of a query puts on that side of an assertion
SideHolds(curie, token) ==
  IF IsWildcard(token) THEN TRUE
  ELSE IF HasXrefPrefix(token)
    THEN curie \in DOMAIN pr_to_uniprot /\ pr_to_uniprot[curie] = token
    ELSE curie = token

SubjectRows(token) == {a \in 1..Len(store) : SideHolds(store[a].subject_curie, token)}

ObjectRows(token) == {a \in 1..Len(store) : SideHolds(store[a].object_curie, token)}

\* the selection is as many of the rows as the limit allows
SelectedFrom(rows) ==
  /\ Range(frame.assertion_list) \subseteq rows
  /\ Len(frame.assertion_list) = Min(EDGE_LIMIT, Cardinality(rows))

HasCurrentVersion(edge) == \E k \in 1..Len(edge.version) : edge.version[k] = CURRENT_VERSION

CurrentEdges(edges) == SelectSeq(edges, HasCurrentVersion)

-----------------------------------------------------------------------------
(* C4 *)

\* C4 as stated: the wildcard is recognised in every spelling ("any", "Any",
\* "ANY") in each position: a wildcard subject leaves the object's condition
\* as the only restriction of the selection, a wildcard object leaves the
\* subject's, and a wildcard predicate discards no edge of the current version.
C4_WildcardAnySpelling ==
  response.status = 200 =>
    /\ IsWildcard(request.subject_curie) => SelectedFrom(ObjectRows(request.object_curie))
    /\ IsWildcard(request.object_curie) => SelectedFrom(SubjectRows(request.subject_curie))
    /\ IsWildcard(request.predicate_curie) =>
         Len(response.results) = Len(CurrentEdges(frame.edge_list))

-----------------------------------------------------------------------------
(* C5 *)

\* C5: every edge in the results of a query carries the current version tag,
\* and the query's predicate is the wildcard or is the edge's predicate_curie;
\* filtering the results by the current version again leaves them unchanged.
C5_ResultsFiltered ==
  response.status = 200 =>
    /\ \A k \in 1..Len(response.results) :
         /\ HasCurrentVersion(response.results[k])
         /\ \/ IsWildcard(request.predicate_curie)
            \/ response.results[k].predicate_curie = request.predicate_curie
    /\ CurrentEdges(response.results) = response.results

\* a query has returned an edge and has discarded another one for its version
C5_Witness ==
  /\ response.status = 200
  /\ response.results # <<>>
  /\ \E k \in 1..Len(frame.edge_list) : ~HasCurrentVersion(frame.edge_list[k])

-----------------------------------------------------------------------------
(* C6 *)

PositionIn(edge_list, edge) ==
  CHOOSE k \in 1..Len(edge_list) : edge_list[k].document_pmid = edge.document_pmid

\* C6: the results are ordered by confidence_score, non-increasing, and two
\* results of equal confidence_score are in the order get_edge_list gave them.
C6_RankedStable ==
  response.status = 200 =>
    \A i, j \in 1..Len(response.results) :
      i < j =>
        /\ response.results[i].confidence_score[1] >= response.results[j].confidence_score[1]
        /\ response.results[i].confidence_score = response.results[j].confidence_score =>
             PositionIn(frame.edge_list, response.results[i])
               < PositionIn(frame.edge_list, response.results[j])

\* the results hold two edges of equal confidence_score
C6_Witness ==
  /\ response.status = 200
  /\ Len(response.results) = 2
  /\ response.results[1].confidence_score = response.results[2].confidence_score

-----------------------------------------------------------------------------
(* C7 *)

\* C7 as stated: the number of edges in the results of a query never exceeds
\* the configured maximum edge count.
C7_ResultsWithinLimit ==
  response.status = 200 => Len(response.results) <= EDGE_LIMIT

-----------------------------------------------------------------------------
(* C8 *)

\* C8 as stated: the selection is as many as the limit allows of the rows
\* that meet the condition of each side that is not the wildcard (both, when
\* neither is), a literal side asking for the curie and a UniProtKB side for
\* the cross-reference; the predicate plays no part.
C8_SelectionTable ==
  response.status = 200 =>
    SelectedFrom(SubjectRows(request.subject_curie) \cap ObjectRows(request.object_curie))

-----------------------------------------------------------------------------
(* C9 *)

XrefMode ==
  HasXrefPrefix(request.subject_curie) \/ HasXrefPrefix(request.object_curie)

Translated(curie) ==
  IF XrefMode /\ curie \in DOMAIN pr_to_uniprot THEN pr_to_uniprot[curie] ELSE curie

\* C9: in cross-reference mode each edge carries, on each side, the
\* cross-reference of the assertion's curie when there is one and the raw
\* curie otherwise; out of that mode each edge carries the raw curies.
C9_EdgeIdentifiers ==
  response.status = 200 =>
    \A k \in 1..Len(frame.edge_list) :
      LET edge == frame.edge_list[k]
          A == store[EdgeRow(edge)]
      IN /\ edge.subject_curie = Translated(A.subject_curie)
         /\ edge.object_curie = Translated(A.object_curie)

\* a query in cross-reference mode by its object alone has emitted an edge
\* with a translated object and a raw subject
C9_Witness ==
  /\ response.status = 200
  /\ ~HasXrefPrefix(request.subject_curie) /\ HasXrefPrefix(request.object_curie)
  /\ \E k \in 1..Len(frame.edge_list) :
       /\ frame.edge_list[k].object_curie = UP1
       /\ frame.edge_list[k].subject_curie = CHEBI2

-----------------------------------------------------------------------------
(* C10 *)

\* C10 as stated: after any sequence of calls of the model classes' methods
\* and of get_edge_list, every loaded object is as the store holds it, the
\* order of each evidence item's evidence_scores included.
C10_ObjectsUnchanged == session = store

-----------------------------------------------------------------------------
(* C11 *)

\* the evidence item has a score row for the predicate
HasRow(ev, p) == \E row \in ScoreSet(ev) : row.predicate_curie = p

\* C11 as stated: on an evidence item that has no score rows,
\* get_top_predicate and get_score (with a predicate or without) return the
\* absent sentinel None, never a number; on an item that has rows, get_score
\* with a predicate that has no row returns None.
C11_AbsentSentinel ==
  ret.op \in {"get_top_predicate", "get_score"} =>
    LET ev == session[ret.a].evidence_list[ret.i] IN
    /\ (Len(ev.evidence_scores) = 0 \/ (ret.arg # None /\ ~HasRow(ev, ret.arg))) =>
         ret.exc = "" /\ ret.val = None
    /\ IF Len(ev.evidence_scores) = 0
         THEN /\ get_top_predicate(ev).exc = ""
              /\ get_top_predicate(ev).val = None
              /\ \A p \in {None} \cup predicates :
                   get_score(ev, p).exc = "" /\ get_score(ev, p).val = None
         ELSE \A p \in predicates :
                ~HasRow(ev, p) => get_score(ev, p).exc = "" /\ get_score(ev, p).val = None

\* the part of C11 the code meets: get_score with a named predicate that has
\* no row returns None, on an item with rows and on an item without
C11_NamedAbsent ==
  /\ \A a \in 1..Len(session) : \A i \in 1..Len(session[a].evidence_list) :
       LET ev == session[a].evidence_list[i] IN
       \A p \in predicates :
         ~HasRow(ev, p) => get_score(ev, p).exc = "" /\ get_score(ev, p).val = None
  /\ (ret.op = "get_score" /\ ret.arg # None) =>
       LET ev == store[ret.a].evidence_list[ret.i] IN
       ~HasRow(ev, ret.arg) => ret.exc = "" /\ ret.val = None

-----------------------------------------------------------------------------
(* C12 *)

\* supportedPredicates: the top predicates of the items that have scores
SpecSupported(A) ==
  {SpecTopPredicate(A.evidence_list[i]) :
     i \in {k \in 1..Len(A.evidence_list) : Len(A.evidence_list[k].evidence_scores) > 0}}

\* C12: an assertion with no evidence has the empty set of predicates and the
\* empty dict of predicate scores, both returned without an error; and for
\* every assertion A and every predicate p that is not a top predicate of A's
\* evidence, get_aggregate_score(A, p) raises instead of returning a number.
C12_NoEvidenceNoScore ==
  /\ \A a \in 1..Len(session) :
       LET A == session[a] IN
       /\ Len(A.evidence_list) = 0 =>
            /\ get_predicates(A).exc = "" /\ get_predicates(A).val = {}
            /\ \A order \in PredOrders :
                 /\ get_predicate_scores(A, order).exc = ""
                 /\ get_predicate_scores(A, order).val = {}
       /\ \A p \in predicates :
            p \notin SpecSupported(A) =>
              /\ get_aggregate_score(A, p).exc # ""
              /\ get_aggregate_score(A, p).val = None
  /\ (ret.op = "get_aggregate_score" /\ ret.arg \notin SpecSupported(store[ret.a])) =>
       ret.exc # "" /\ ret.val = None
  /\ (ret.op \in {"get_predicates", "get_predicate_scores"}
        /\ Len(store[ret.a].evidence_list) = 0) =>
       ret.exc = "" /\ ret.val = {}

\* get_aggregate_score has raised for a predicate that is not supported by an
\* assertion that supports another one
C12_Witness ==
  /\ ret.op = "get_aggregate_score"
  /\ ret.exc = "ZeroDivisionError"
  /\ SpecSupported(store[ret.a]) # {}
  /\ ret.arg \notin SpecSupported(store[ret.a])

-----------------------------------------------------------------------------
(* C13 *)

\* the assertion rows and the evidence rows of an id
AssertionRecords(id) == {a \in 1..Len(store) : store[a].assertion_id = id}

EvidenceRecords(id) ==
  UNION {{store[a].evidence_list[i] : i \in {k \in 1..Len(store[a].evidence_list) :
                                             store[a].evidence_list[k].evidence_id = id}} :
           a \in 1..Len(store)}

\* no evidence of the records carries the current version tag
NoCurrentVersionData(route, id) ==
  IF route = "/assertion/"
    THEN \A a \in AssertionRecords(id) :
           \A i \in 1..Len(store[a].evidence_list) : ~HasCurrentVersion(store[a].evidence_list[i])
    ELSE \A ev \in EvidenceRecords(id) : ~HasCurrentVersion(ev)

NotFound(route, id) ==
  IF route = "/assertion/" THEN AssertionRecords(id) = {} ELSE EvidenceRecords(id) = {}

\* C13: a lookup by id is answered, never raised: "No results found" exactly
\* when no record has the id, "No results found in current version" exactly
\* when a record has the id and none of its evidence (the evidence itself, for
\* an evidence lookup) carries the current version tag, and the rendered
\* record of that id otherwise.
C13_LookupAdvisory ==
  response.status # 0 =>
    /\ response.status = 200
    /\ response.body = "No results found" <=> NotFound(request.route, request.id)
    /\ response.body = "No results found in current version" <=>
         ~NotFound(request.route, request.id) /\ NoCurrentVersionData(request.route, request.id)
    /\ (~NotFound(request.route, request.id) /\ ~NoCurrentVersionData(request.route, request.id)) =>
         /\ response.body = IF request.route = "/assertion/" THEN "assertion.html"
                            ELSE "evidence.html"
         /\ response.record = Some(request.id)

\* an assertion that has evidence, all of it of the first release only, has
\* been looked up
C13_Witness ==
  /\ request.route = "/assertion/"
  /\ response.body = "No results found in current version"
  /\ \E a \in AssertionRecords(request.id) : Len(store[a].evidence_list) = MaxEvidence

-----------------------------------------------------------------------------
(* C14 *)

\* the edges a query asks for: of the current version, and of the query's
\* predicate unless that is the wildcard 'Any'
Wanted(edge) ==
  /\ HasCurrentVersion(edge)
  /\ (request.predicate_curie = ANY_TITLE \/ edge.predicate_curie = request.predicate_curie)

-----------------------------------------------------------------------------
(* C15 *)

\* the columns of an export record
KgxSubject(edge) == edge[1]

KgxPredicate(edge) == edge[2]

KgxObject(edge) == edge[3]

KgxScore(edge) == edge[6]

KgxAttributes(edge) == edge[9].json

\* the records exported for A: one per supported predicate, each with five
\* assertion-level attributes, then one block per supporting evidence item
ExportShape(A, edges) ==
  /\ Len(edges) = Cardinality(SpecSupported(A))
  /\ {KgxPredicate(edges[k]) : k \in 1..Len(edges)} = SpecSupported(A)
  /\ \A k \in 1..Len(edges) :
       LET p == KgxPredicate(edges[k])
           items == Supporting(A, p)
           attrs == KgxAttributes(edges[k])
       IN /\ Len(attrs) = 5 + Cardinality(items)
          /\ \A m \in 1..Len(attrs) :
               attrs[m].attribute_type_id = "biolink:supporting_study_result" <=> m > 5
          /\ {attrs[m].value : m \in 6..Len(attrs)} =
               {<<"tmkp:", A.evidence_list[i].evidence_id>> : i \in items}
          /\ attrs[3].attribute_type_id = "biolink:has_evidence_count"
          /\ attrs[3].value = Cardinality(items)
          /\ attrs[4].attribute_type_id = "biolink:tmkp_confidence_score"
          /\ attrs[4].value = KgxScore(edges[k])
          /\ IsMean(KgxScore(edges[k]), SumScores(A, p, items), Cardinality(items))

\* the two exports differ in the subject and the object only
SameButEndpoints(A, raw, other) ==
  /\ Len(raw) = Len(other)
  /\ \A k \in 1..Len(raw) :
       /\ \A column \in (1..9) \ {1, 3} : raw[k][column] = other[k][column]
       /\ KgxSubject(raw[k]) = A.subject_curie
       /\ KgxObject(raw[k]) = A.object_curie
       /\ KgxSubject(other[k]) =
            IF A.subject_curie \in DOMAIN pr_to_uniprot
              THEN pr_to_uniprot[A.subject_curie] ELSE A.subject_curie
       /\ KgxObject(other[k]) =
            IF A.object_curie \in DOMAIN pr_to_uniprot
              THEN pr_to_uniprot[A.object_curie] ELSE A.object_curie

\* both exports of the assertion return, with the records of ExportShape
Exported(a) ==
  /\ \A order \in PredOrders :
       LET raw == get_edges_kgx(session[a], order)
           other == get_other_edges_kgx(session[a], order)
       IN /\ raw.exc = "" /\ other.exc = ""
          /\ ExportShape(store[a], raw.val)
          /\ ExportShape(store[a], other.val)
          /\ SameButEndpoints(store[a], raw.val, other.val)
  /\ (ret.op \in {"get_edges_kgx", "get_other_edges_kgx"} /\ ret.a = a) =>
       ret.exc = "" /\ ExportShape(store[a], ret.val)

\* every evidence item of the assertion has its two entities
AllLocated(A) ==
  \A i \in 1..Len(A.evidence_list) :
    A.evidence_list[i].subject_entity # None /\ A.evidence_list[i].object_entity # None

\* C15 as stated: the KGX export of an assertion emits exactly one record per
\* supported predicate p; its attributes are 5 assertion-level attributes and
\* then one evidence-level block per evidence item whose top predicate is p;
\* has_evidence_count is the number of those items and the confidence
\* attribute is the record's aggregate score, the mean over those items; the
\* raw and the cross-reference export differ in subject and object only.
C15_ExportRecords ==
  ret.op \in {"get_edges_kgx", "get_other_edges_kgx"} =>
    (AllScored(store[ret.a]) => Exported(ret.a))

\* the part of C15 the code meets: the same, for the assertions whose evidence
\* items all have their two entities
C15_LocatedRecords ==
  \A a \in 1..Len(session) : (AllScored(store[a]) /\ AllLocated(store[a])) => Exported(a)

\* an export record with one evidence block for each of MaxEvidence items has
\* been returned
C15_Witness ==
  /\ ret.op = "get_other_edges_kgx" /\ ret.exc = ""
  /\ \E k \in 1..Len(ret.val) : Len(KgxAttributes(ret.val[k])) = 5 + MaxEvidence

-----------------------------------------------------------------------------
(* C16 *)

\* a query that is not JSON or that lacks its subject, predicate or object
InvalidQuery(body) ==
  \/ ~body.is_json
  \/ body.subject_curie = None
  \/ body.predicate_curie = None
  \/ body.object_curie = None

\* C16: a /query/ request that is not JSON, or whose body lacks the subject,
\* the predicate or the object, is answered with an error status and no result
\* envelope, and nothing is selected, no edge is built and the normalization
\* service is not called for it.
C16_InvalidQueryRejected ==
  (request.route = "/query/" /\ InvalidQuery(request)) =>
    /\ response.status \in {400, 500}
    /\ response.query = NoQuery
    /\ response.results = <<>>
    /\ session = <<>>
    /\ frame = NoFrame

\* a JSON body with a subject and an object and no predicate has been answered
C16_Witness ==
  /\ request.route = "/query/"
  /\ request.is_json
  /\ request.subject_curie # None /\ request.object_curie # None
  /\ request.predicate_curie = None
  /\ response.status = 500

-----------------------------------------------------------------------------
(* C17 *)

\* C17: for every evidence item that has a score, whatever calls have been
\* made on the loaded objects, get_top_predicate returns a predicate whose
\* score is the highest of the item's scores, and of the predicates that share
\* the highest score the one whose row comes first in the store; every call
\* that has returned has returned that predicate.
C17_TopPredicateFirstMax ==
  /\ \A a \in 1..Len(session) : \A i \in 1..Len(session[a].evidence_list) :
       LET kept == store[a].evidence_list[i]
           top == get_top_predicate(session[a].evidence_list[i])
       IN Len(kept.evidence_scores) > 0 =>
            /\ top.exc = ""
            /\ top.val = SpecTopPredicate(kept)
            /\ \A row \in ScoreSet(kept) : row.score <= SpecScoreFor(kept, top.val)[1]
            /\ \A k \in 1..Len(kept.evidence_scores) :
                 kept.evidence_scores[k].score = SpecScoreFor(kept, top.val)[1] =>
                   \E m \in 1..k : kept.evidence_scores[m].predicate_curie = top.val
  /\ (ret.op = "get_top_predicate"
        /\ Len(store[ret.a].evidence_list[ret.i].evidence_scores) > 0) =>
       /\ ret.exc = ""
       /\ ret.val = SpecTopPredicate(store[ret.a].evidence_list[ret.i])

\* get_top_predicate has returned for an item whose two scores are equal,
\* after a call has reordered the scores of another item
C17_Witness ==
  /\ ret.op = "get_top_predicate" /\ ret.exc = ""
  /\ LET rows == store[ret.a].evidence_list[ret.i].evidence_scores IN
       Len(rows) = 2 /\ rows[1].score = rows[2].score
  /\ session # store

-----------------------------------------------------------------------------
(* C18 *)

\* the edges built from the evidence item
EdgesOf(edges, ev) == {k \in 1..Len(edges) : edges[k].document_pmid = ev.document_id}

\* one edge for each evidence item of each assertion of the store, with the
\* item's top predicate
OneEdgePerEvidence(edges) ==
  /\ Len(edges) = TotalEvidence(store)
  /\ \A a \in 1..Len(store) :
       /\ Cardinality(UNION {EdgesOf(edges, store[a].evidence_list[i]) :
                               i \in 1..Len(store[a].evidence_list)})
            = Len(store[a].evidence_list)
       /\ \A i \in 1..Len(store[a].evidence_list) :
            LET ev == store[a].evidence_list[i] IN
            /\ Cardinality(EdgesOf(edges, ev)) = 1
            /\ \A k \in EdgesOf(edges, ev) : edges[k].predicate_curie = SpecTopPredicate(ev)

\* C18: for every list of assertions whose evidence items each have a score,
\* get_edge_list returns, with exactly one edge for each evidence item: none
\* is left out and none appears under two predicates, so an assertion has as
\* many edges as evidence items, and the predicate_curie of an item's edge is
\* the item's top predicate.
C18_OneEdgePerEvidence ==
  (\A a \in 1..Len(store) : AllScored(store[a])) =>
    /\ \A use_uniprot \in BOOLEAN : \A orders \in [1..Len(session) -> PredOrders] :
         LET call == get_edge_list(session, use_uniprot, orders) IN
         call.exc = "" /\ OneEdgePerEvidence(call.val)
    /\ ret.op = "get_edge_list" => (ret.exc = "" /\ OneEdgePerEvidence(ret.val))

\* get_edge_list has returned the edges of an assertion whose items have
\* different top predicates, each item scoring both predicates
C18_Witness ==
  /\ ret.op = "get_edge_list" /\ ret.exc = ""
  /\ Len(ret.val) = MaxEvidence
  /\ \E k, m \in 1..Len(ret.val) : ret.val[k].predicate_curie # ret.val[m].predicate_curie
  /\ \A i \in 1..Len(store[1].evidence_list) :
       Len(store[1].evidence_list[i].evidence_scores) = Cardinality(predicates)

====
